---- MODULE Spec2Model ----
(***************************************************************************)
(* Model of examples_python/translation/prepare-wmt14en2fr.py: the WMT14   *)
(* en-fr corpus preparation pipeline.  main() is a straight-line program   *)
(* that shells out through execute(); the model steps from one execute()   *)
(* call (or prompt, or uncaught exception) to the next.                    *)
(*                                                                         *)
(* A path is a sequence of components, a component a sequence of the       *)
(* dot-separated parts of its name.  A file is a sequence of lines, a line *)
(* a pair <<sentence id, number of whitespace separated tokens>>.          *)
(***************************************************************************)
EXTENDS Integers, Sequences, FiniteSets, TLC

VARIABLES args, cwd, fs, pc, idx, moses_path, subword_nmt, orig_save_dir,
          processed_filepaths, file_pairs, pairs_left, file_pairs_,
          gz_left, src_file_pair, kept, split_input, log, exit_code, corpus

vars == <<args, cwd, fs, pc, idx, moses_path, subword_nmt, orig_save_dir,
          processed_filepaths, file_pairs, pairs_left, file_pairs_,
          gz_left, src_file_pair, kept, split_input, log, exit_code, corpus>>

(* ------------------------------------------------------------------ *)
(* Program constants                                                   *)
(* ------------------------------------------------------------------ *)
SRC_LANG == "en"
TGT_LANG == "fr"
LANGS == <<SRC_LANG, TGT_LANG>>
PAIR == "en-fr"

\* awk '{if (NR%1333 == 0) ...}'
SplitMod == 1333
\* clean-corpus-n.perl -ratio 1.5 ... 1 250
RatioNum == 3
RatioDen == 2
MinLen == 1
MaxLen == 250

(* ------------------------------------------------------------------ *)
(* Bounds of the inputs                                                *)
(* ------------------------------------------------------------------ *)
\* lines of the toy training corpus
ToySize == 2000
\* the other corpora have up to MaxStrides * SplitMod + 1 lines
MaxStrides == 2
\* --bpe-tokens
BpeTokens == 100
\* characters of a corpus word (what an empty merge table splits it into)
WordLen == 2

(* ------------------------------------------------------------------ *)
(* Paths                                                               *)
(* ------------------------------------------------------------------ *)
Dir(name) == <<name>>
Join(dir, comp) == Append(dir, comp)
\* os.path.split
SplitPath(p) == <<SubSeq(p, 1, Len(p) - 1), p[Len(p)]>>
\* os.path.splitext on the last component
SplitExt(p) ==
    LET n == p[Len(p)]
    IN  Join(SubSeq(p, 1, Len(p) - 1), SubSeq(n, 1, Len(n) - 1))
\* str.replace(".processed", "") on a file name
DropProcessed(n) == SelectSeq(n, LAMBDA part : part # "processed")
\* the parts of the model's vocabulary that hold the substring "test"
TestParts == {"test", "wmt_test", "test-full", "newstest2014-fren-src",
              "newstest2014-fren-ref"}
\* `"test" in path`, on the joined path string
HasTest(p) == \E i \in 1..Len(p) : \E j \in 1..Len(p[i]) : p[i][j] \in TestParts
\* p lies in the tree rooted at dir (Path(dir).rglob sees it)
Under(p, dir) == Len(p) > Len(dir) /\ SubSeq(p, 1, Len(dir)) = dir

Exists(p) == p \in DOMAIN fs
Write(f, p, content) == [q \in DOMAIN f \cup {p} |-> IF q = p THEN content ELSE f[q]]
Remove(f, p) == [q \in DOMAIN f \ {p} |-> f[q]]
Read(f, p) == IF p \in DOMAIN f THEN f[p] ELSE <<>>

(* ------------------------------------------------------------------ *)
(* The published data: the training corpus and the test release        *)
(* ------------------------------------------------------------------ *)
\* Whitespace separated words of raw sentence id of the training corpus.
\* After tokenization (+1) and BPE (+1) the pair at c.long has 251/251
\* tokens, the pair at c.skew 9/3, every other pair 4/4 or 4/6.
RawWords(c, lang, id) ==
    IF id = c.long THEN 249
    ELSE IF id = c.skew THEN (IF lang = SRC_LANG THEN 7 ELSE 1)
    ELSE IF lang = SRC_LANG \/ id % 2 = 1 THEN 2 ELSE 4

RawCorpus(c, lang) == [id \in 1..c.n[lang] |-> <<id, RawWords(c, lang, id)>>]

\* newstest2014-fren-{src,ref}.{lang}.sgm: markup lines (id 0) around
\* three <seg> lines, one too long, one skewed and one ordinary.
TestSgm(lang) ==
    << <<0, 1>>, <<1, 2>>, <<2, 249>>,
       <<3, IF lang = SRC_LANG THEN 7 ELSE 1>>, <<0, 1>> >>

(* ------------------------------------------------------------------ *)
(* The external tools, by their command-line contracts                 *)
(* ------------------------------------------------------------------ *)
\* tokenizer.perl: one line in, one line out; the final punctuation mark
\* of a sentence becomes a token of its own.
TokenizeLine(line) == <<line[1], IF line[2] = 0 THEN 0 ELSE line[2] + 1>>
Tokenizer(f) == [j \in 1..Len(f) |-> TokenizeLine(f[j])]

\* grep '<seg id' | sed ... | tokenizer.perl
SgmExtract(f) == Tokenizer(SelectSeq(f, LAMBDA line : line[1] # 0))

\* (mutant) the stride counted from line 0: NR-1 in place of NR
RECURSIVE AwkRangeFromZero(_, _, _, _)
AwkRangeFromZero(f, toVal, lo, hi) ==
    IF lo > hi THEN <<>>
    ELSE IF lo = hi
         THEN IF ((lo - 1) % SplitMod = 0) = toVal THEN <<f[lo]>> ELSE <<>>
         ELSE LET mid == (lo + hi) \div 2
              IN  AwkRangeFromZero(f, toVal, lo, mid)
                      \o AwkRangeFromZero(f, toVal, mid + 1, hi)

\* (mutant) the split decided by the number of fields: NF in place of NR
RECURSIVE AwkRangeByFields(_, _, _, _)
AwkRangeByFields(f, toVal, lo, hi) ==
    IF lo > hi THEN <<>>
    ELSE IF lo = hi
         THEN IF (f[lo][2] % 3 = 0) = toVal THEN <<f[lo]>> ELSE <<>>
         ELSE LET mid == (lo + hi) \div 2
              IN  AwkRangeByFields(f, toVal, lo, mid)
                      \o AwkRangeByFields(f, toVal, mid + 1, hi)

\* awk '{if (NR%1333 == 0) print $0; }' (toVal) and
\* awk '{if (NR%1333 != 0) print $0; }' (~toVal), over lines lo..hi
RECURSIVE AwkRange(_, _, _, _)
AwkRange(f, toVal, lo, hi) ==
    IF lo > hi THEN <<>>
    ELSE IF lo = hi
         THEN IF (lo % SplitMod = 0) = toVal THEN <<f[lo]>> ELSE <<>>
         ELSE LET mid == (lo + hi) \div 2
              IN  AwkRange(f, toVal, lo, mid) \o AwkRange(f, toVal, mid + 1, hi)

AwkSplit(f, toVal) == AwkRange(f, toVal, 1, Len(f))

\* learn_bpe.py -s n < merged > code: the merge table, one line holding
\* the number of merges learned (none from a text without words).
HasWords(f) == \E j \in 1..Len(f) : f[j][2] > 0
LearnBpe(merged, n) == << <<0, IF HasWords(merged) THEN n ELSE 0>> >>

\* apply_bpe.py -c code: one line in, one line out.  Without merges every
\* word falls apart into its characters; with merges one rare word per
\* sentence is still split in two.
BpeLine(code, line) ==
    <<line[1],
      IF line[2] = 0 THEN 0
      ELSE IF code[1][2] = 0 THEN line[2] * WordLen
      ELSE line[2] + 1>>
ApplyBpe(code, f) == [j \in 1..Len(f) |-> BpeLine(code, f[j])]

\* (mutant) the ratio test left out of the filter
RetainedAnyRatio(e, f) ==
    /\ e >= MinLen /\ e <= MaxLen
    /\ f >= MinLen /\ f <= MaxLen

\* clean-corpus-n.perl -ratio 1.5 pair en fr out 1 250: is a sentence pair
\* with e and f tokens retained
Retained(e, f) ==
    /\ e >= MinLen /\ e <= MaxLen
    /\ f >= MinLen /\ f <= MaxLen
    /\ e * RatioDen <= f * RatioNum
    /\ f * RatioDen <= e * RatioNum

\* the line numbers lo..hi that clean-corpus-n.perl retains
RECURSIVE CleanRange(_, _, _, _)
CleanRange(fe, ff, lo, hi) ==
    IF lo > hi THEN <<>>
    ELSE IF lo = hi
         THEN IF Retained(fe[lo][2], ff[lo][2]) THEN <<lo>> ELSE <<>>
         ELSE LET mid == (lo + hi) \div 2
              IN  CleanRange(fe, ff, lo, mid) \o CleanRange(fe, ff, mid + 1, hi)

CleanCorpus(fe, ff, f) ==
    LET keep == CleanRange(fe, ff, 1, Len(fe))
    IN  [j \in 1..Len(keep) |-> f[keep[j]]]

(* ------------------------------------------------------------------ *)
(* Names                                                               *)
(* ------------------------------------------------------------------ *)
URLS == << <<"training-parallel-europarl-v7", "tgz">>,
           <<"training-parallel-commoncrawl", "tgz">>,
           <<"training-parallel-un", "tgz">>,
           <<"training-parallel-nc-v9", "tgz">>,
           <<"training-giga-fren", "tar">>,
           <<"test-full", "tgz">> >>

TRAIN_CORPORA == << <<"news-commentary-v9", "fr-en">> >>

\* TEST_CORPUS.format(source, lang)
TEST_CORPUS(source, lang) ==
    <<IF source = "src" THEN "newstest2014-fren-src" ELSE "newstest2014-fren-ref",
      lang, "sgm">>
TestSource(lang) == IF lang = SRC_LANG THEN "src" ELSE "ref"

\* What tar unpacks from each archive, relative to the directory it runs
\* in.  Only the news commentary and the test release are read later; the
\* other corpora are one-line stand-ins.
Stub == << <<1, 2>> >>
Members(arc, c) ==
    IF arc[1] = "training-parallel-nc-v9"
    THEN {<< <<Dir("training"), <<"news-commentary-v9", "fr-en", l>>>>,
             RawCorpus(c, l) >> : l \in {SRC_LANG, TGT_LANG}}
    ELSE IF arc[1] = "test-full"
    THEN {<< <<Dir("test-full"), TEST_CORPUS(TestSource(l), l)>>,
             TestSgm(l) >> : l \in {SRC_LANG, TGT_LANG}}
    ELSE IF arc[1] = "training-giga-fren"
    THEN {<< << <<"giga-fren", "release2", "fixed", l, "gz">> >>, Stub >> :
             l \in {SRC_LANG, TGT_LANG}}
    ELSE {<< <<Dir("training"), <<arc[1], "fr-en", l>>>>, Stub >> :
             l \in {SRC_LANG, TGT_LANG}}

\* tar xv[z]f archive, run in directory dir
Untar(f, dir, arc, c) ==
    LET ms == Members(arc, c)
        out == {dir \o m[1] : m \in ms}
    IN  [q \in DOMAIN f \cup out |->
            IF q \in out THEN (CHOOSE m \in ms : dir \o m[1] = q)[2] ELSE f[q]]

\* Path("./").glob("giga-fren.release2.fixed.*.gz")
GlobGz(f, dir) ==
    {q \in DOMAIN f : /\ Len(q) = Len(dir) + 1
                      /\ SubSeq(q, 1, Len(dir)) = dir
                      /\ Len(q[Len(q)]) = 5
                      /\ SubSeq(q[Len(q)], 1, 3) = <<"giga-fren", "release2", "fixed">>
                      /\ q[Len(q)][5] = "gz"}

\* Path(dir).rglob(name)
RGlob(f, dir, name) == {q \in DOMAIN f : Under(q, dir) /\ q[Len(q)] = name}

ProcessedDir == Join(args.save_dir, Dir("processed"))
CleanedDir == Join(args.save_dir, Dir("cleaned"))
BinarizedDir == Join(args.save_dir, Dir("binarized"))
UnsplitName(lang) == <<"train", "unsplit", "processed", PAIR, lang>>
UnsplitPath(save_dir, lang) == Join(Join(save_dir, Dir("processed")), UnsplitName(lang))
SplitPathOf(split, lang) == Join(ProcessedDir, <<split, "processed", PAIR, lang>>)
TestPath(lang) == Join(ProcessedDir, <<"test", PAIR, lang>>)
MergedPath == Join(ProcessedDir, <<"train", "processed", PAIR>>)
CodePath == Join(CleanedDir, <<"code">>)
\* os.path.join(src_filedir, f"bpe.{src_filename}")
BpePath(p) == Join(SplitPath(p)[1], <<"bpe">> \o SplitPath(p)[2])
\* os.path.join(cleaned_path, file_pair.replace(".processed", ""))
DestPair(p) == Join(CleanedDir, DropProcessed(SplitPath(p)[2]))
\* f"{pair}.{lang}"
WithLang(p, lang) == Join(SplitPath(p)[1], Append(SplitPath(p)[2], lang))


(* ------------------------------------------------------------------ *)
(* Inputs                                                              *)
(* ------------------------------------------------------------------ *)
None == <<>>
GivenMoses == <<Dir("opt"), Dir("moses"), Dir("scripts")>>
GivenSubword == <<Dir("opt"), Dir("subword_nmt")>>
GivenOrig == <<Dir("raw")>>
SaveDirs == {<<Dir("wmt")>>, <<Dir("wmt_test")>>}
WorkDir == <<Dir("work")>>

Both(n) == [l \in {SRC_LANG, TGT_LANG} |-> n]

\* the toy corpus, with the over-long and the skewed pair inside the
\* training part or on the validation stride
Corpora ==
    {[n |-> Both(ToySize), long |-> p[1], skew |-> p[2]] :
        p \in {<<7, 8>>, <<SplitMod, 8>>, <<7, SplitMod>>}}

\* corpora of a length next to a multiple of the stride, the French side
\* as long as the English one or a line longer
Sizes == {k * SplitMod + d : k \in 0..MaxStrides, d \in {0 - 1, 0, 1}} \cap Nat
SizedCorpora ==
    {[n |-> [Both(m) EXCEPT ![TGT_LANG] = m + d], long |-> SplitMod, skew |-> 8] :
        m \in Sizes, d \in {0, 1}}

\* exit() without an argument ends the process with status 0; an uncaught
\* exception ends it with status 1
ExitNone == 0
TracebackStatus == 1
\* main returned
NormalEnd == 0
Running == 0 - 1

Cmd(tool, src, dst) == [tool |-> tool, src |-> src, dst |-> dst]

\* the data the caller unpacked under orig_dir beforehand
Unpacked(dir, c) ==
    Untar(Untar(<<>>, dir, URLS[4], c), dir, URLS[6], c)

\* what earlier, aborted runs left behind under save_dir: empty unsplit
\* files (the tokenizer command created them and failed) and, with them,
\* a merged file
Stale(f, save_dir, langs) ==
    LET merged == Join(Join(save_dir, Dir("processed")), <<"train", "processed", PAIR>>)
        left == {UnsplitPath(save_dir, l) : l \in langs}
                    \cup (IF langs = {} THEN {} ELSE {merged})
    IN  [q \in DOMAIN f \cup left |->
            IF q \in DOMAIN f THEN f[q] ELSE IF q = merged THEN Stub ELSE <<>>]

\* the state main(args) starts in
Start(a, dir, c, langs) ==
    /\ args = a
    /\ cwd = dir
    /\ corpus = c
    /\ fs = Stale(IF a.orig_dir = None THEN <<>> ELSE Unpacked(a.orig_dir, c),
                  a.save_dir, langs)
    /\ pc = "moses"
    /\ idx = 1
    /\ moses_path = None
    /\ subword_nmt = None
    /\ orig_save_dir = None
    /\ processed_filepaths = [train |-> <<>>, val |-> <<>>, test |-> <<>>]
    /\ file_pairs = <<>>
    /\ pairs_left = {}
    /\ file_pairs_ = <<>>
    /\ gz_left = {}
    /\ src_file_pair = None
    /\ kept = {}
    /\ split_input = Both(<<>>)
    /\ log = <<>>
    /\ exit_code = Running

\* the command lines: both tool-sets given or both to be cloned
Args ==
    {a \in [moses_path : {None, GivenMoses},
            subword_nmt : {None, GivenSubword},
            orig_dir : {None, GivenOrig},
            save_dir : SaveDirs,
            binarize : BOOLEAN,
            bpe_tokens : {BpeTokens}] :
        (a.moses_path = None) = (a.subword_nmt = None)}

Init ==
    \E a \in Args, c \in Corpora, langs \in SUBSET {SRC_LANG, TGT_LANG} :
       \E dir \in {WorkDir, Join(a.save_dir, Dir("orig"))} :
          Start(a, dir, c, langs)

\* everything fetched, launched from `save_dir`/orig, on corpora of many
\* lengths
SizesInit ==
    \E c \in SizedCorpora :
       Start([moses_path |-> None, subword_nmt |-> None, orig_dir |-> None,
              save_dir |-> <<Dir("wmt")>>, binarize |-> TRUE,
              bpe_tokens |-> BpeTokens],
             <<Dir("wmt"), Dir("orig")>>, c, {})

conf == <<args, cwd, corpus>>
tools == <<moses_path, subword_nmt>>
lists == <<processed_filepaths, file_pairs, pairs_left, file_pairs_, gz_left,
           src_file_pair>>
ghosts == <<kept, split_input>>

(* ------------------------------------------------------------------ *)
(* execute(command)                                                    *)
(* ------------------------------------------------------------------ *)
Logged(cmd) == Append(log, <<"exec", cmd>>)

\* (mutant) the error is logged and swallowed: main carries on
ExecuteFailsSwallowed(cmd) ==
    /\ log' = Append(Logged(cmd), <<"error", cmd>>)
    /\ UNCHANGED <<conf, tools, lists, ghosts, fs, idx, orig_save_dir, pc,
                   exit_code>>

\* subprocess.check_output raised CalledProcessError: log the captured
\* output (taken to decode as UTF-8) and exit()
ExecuteFails(cmd) ==
    /\ log' = Append(Logged(cmd), <<"error", cmd>>)
    /\ pc' = "exited"
    /\ exit_code' = ExitNone
    /\ UNCHANGED <<conf, tools, lists, ghosts, fs, idx, orig_save_dir>>

\* an uncaught exception of main
Crash ==
    /\ pc' = "crashed"
    /\ exit_code' = TracebackStatus
    /\ UNCHANGED <<conf, tools, lists, ghosts, fs, idx, orig_save_dir, log>>

(* ------------------------------------------------------------------ *)
(* 1. Moses and Subword NMT                                            *)
(* ------------------------------------------------------------------ *)
Moses ==
    /\ pc = "moses"
    /\ IF args.moses_path = None
       THEN LET cmd == Cmd("git clone", <<Dir("mosesdecoder")>>, cwd)
            IN  \/ /\ moses_path' = cwd \o <<Dir("mosesdecoder"), Dir("scripts")>>
                   /\ log' = Logged(cmd)
                   /\ pc' = "subword"
                   /\ UNCHANGED <<conf, lists, ghosts, fs, idx, subword_nmt,
                                  orig_save_dir, exit_code>>
                \/ ExecuteFails(cmd)
       ELSE /\ moses_path' = args.moses_path
            /\ pc' = "subword"
            /\ UNCHANGED <<conf, lists, ghosts, fs, idx, subword_nmt,
                           orig_save_dir, log, exit_code>>

SubwordNmt ==
    /\ pc = "subword"
    /\ IF args.subword_nmt = None
       THEN LET cmd == Cmd("git clone", <<Dir("subword-nmt")>>, cwd)
            IN  \/ /\ subword_nmt' = cwd \o <<Dir("subword-nmt"), Dir("subword_nmt")>>
                   /\ log' = Logged(cmd)
                   /\ pc' = "orig"
                   /\ UNCHANGED <<conf, lists, ghosts, fs, idx, moses_path,
                                  orig_save_dir, exit_code>>
                \/ ExecuteFails(cmd)
       ELSE /\ subword_nmt' = args.subword_nmt
            /\ pc' = "orig"
            /\ UNCHANGED <<conf, lists, ghosts, fs, idx, moses_path,
                           orig_save_dir, log, exit_code>>

(* ------------------------------------------------------------------ *)
(* 2. Original data                                                    *)
(* ------------------------------------------------------------------ *)
OrigDir ==
    /\ pc = "orig"
    /\ IF args.orig_dir = None
       THEN /\ orig_save_dir' = Join(args.save_dir, Dir("orig"))
            /\ pc' = "wget"
       ELSE /\ orig_save_dir' = args.orig_dir
            /\ pc' = "normalize"
    /\ idx' = 1
    /\ UNCHANGED <<conf, tools, lists, ghosts, fs, log, exit_code>>

\* execute(f"wget {url} -P {orig_save_dir}")
Wget ==
    /\ pc = "wget"
    /\ LET arc == URLS[idx]
           cmd == Cmd("wget", << <<arc>> >>, orig_save_dir)
       IN  \/ /\ fs' = Write(fs, Join(orig_save_dir, arc), Stub)
              /\ log' = Logged(cmd)
              /\ pc' = "tar"
              /\ UNCHANGED <<conf, tools, lists, ghosts, idx, orig_save_dir,
                             exit_code>>
           \/ ExecuteFails(cmd)

\* the next url, or the end of the loop over URLS
AfterUrl == IF idx < Len(URLS) THEN <<"wget", idx + 1>> ELSE <<"normalize", 1>>

\* the directory tar unpacks into: no -C is given
ExtractDir == cwd

\* execute(f"tar xvzf {arc_filepath}") / execute(f"tar xvf {arc_filepath}")
Tar ==
    /\ pc = "tar"
    /\ LET arc == URLS[idx]
           arc_filepath == Join(orig_save_dir, arc)
           cmd == Cmd("tar", <<arc_filepath>>, ExtractDir)
           new == Untar(fs, ExtractDir, arc, corpus)
       IN  \/ /\ Exists(arc_filepath)
              /\ fs' = new
              /\ log' = Logged(cmd)
              /\ IF arc[2] = "tar" /\ GlobGz(new, cwd) # {}
                 THEN pc' = "gunzip" /\ idx' = idx /\ gz_left' = GlobGz(new, cwd)
                 ELSE pc' = AfterUrl[1] /\ idx' = AfterUrl[2] /\ gz_left' = gz_left
              /\ UNCHANGED <<conf, tools, ghosts, orig_save_dir,
                             processed_filepaths, file_pairs, pairs_left,
                             file_pairs_, src_file_pair, exit_code>>
           \/ ExecuteFails(cmd)

\* execute(f"gunzip {gunzip_path}"), in the order the directory lists them
Gunzip ==
    /\ pc = "gunzip"
    /\ \E gz \in gz_left :
         LET cmd == Cmd("gunzip", <<gz>>, SplitExt(gz))
         IN  \/ /\ Exists(gz)
                /\ fs' = Write(Remove(fs, gz), SplitExt(gz), fs[gz])
                /\ log' = Logged(cmd)
                /\ gz_left' = gz_left \ {gz}
                /\ IF gz_left = {gz}
                   THEN pc' = AfterUrl[1] /\ idx' = AfterUrl[2]
                   ELSE pc' = pc /\ idx' = idx
                /\ UNCHANGED <<conf, tools, ghosts, orig_save_dir,
                               processed_filepaths, file_pairs, pairs_left,
                               file_pairs_, src_file_pair, exit_code>>
             \/ ExecuteFails(cmd)

(* ------------------------------------------------------------------ *)
(* 3. Preprocess train data                                            *)
(* ------------------------------------------------------------------ *)
\* deleted = remove_if_exists(dest_filepath, ask=True), with the answer
\* the operator ends up giving
RemoveAsk ==
    /\ pc = "normalize"
    /\ LET lang == LANGS[idx]
           dest_filepath == UnsplitPath(args.save_dir, lang)
       IN  \/ /\ Exists(dest_filepath)
              /\ \E inp \in {"y", "n"} :
                   IF inp = "y"
                   THEN /\ fs' = Remove(fs, dest_filepath)
                        /\ pc' = "tokenize"
                        /\ UNCHANGED <<idx, kept, log>>
                   ELSE /\ kept' = kept \cup {lang}
                        /\ log' = Append(log, <<"info", "Skipping">>)
                        /\ IF idx < Len(LANGS)
                           THEN pc' = pc /\ idx' = idx + 1
                           ELSE pc' = "test" /\ idx' = 1
                        /\ fs' = fs
           \/ /\ ~Exists(dest_filepath)
              /\ pc' = "tokenize"
              /\ UNCHANGED <<fs, idx, kept, log>>
    /\ UNCHANGED <<conf, tools, lists, split_input, orig_save_dir, exit_code>>

\* list(Path(orig_save_dir).rglob(...))[0], then
\* execute("cat raw | perl norm_punc | perl rem_non_print_char | perl
\* tokenizer >> dest"); TRAIN_CORPORA names one corpus
Tokenize ==
    /\ pc = "tokenize"
    /\ LET lang == LANGS[idx]
           dest_filepath == UnsplitPath(args.save_dir, lang)
           found == RGlob(fs, orig_save_dir, Append(TRAIN_CORPORA[1], lang))
       IN  IF found = {}
           THEN Crash
           ELSE \E raw_filepath \in found :
                  LET cmd == Cmd("tokenizer.perl", <<raw_filepath>>, dest_filepath)
                  IN  \/ /\ fs' = Write(fs, dest_filepath,
                                        Read(fs, dest_filepath)
                                            \o Tokenizer(fs[raw_filepath]))
                         /\ log' = Logged(cmd)
                         /\ IF idx < Len(LANGS)
                            THEN pc' = "normalize" /\ idx' = idx + 1
                            ELSE pc' = "test" /\ idx' = 1
                         /\ UNCHANGED <<conf, tools, lists, ghosts, orig_save_dir,
                                        exit_code>>
                      \/ ExecuteFails(cmd)

(* ------------------------------------------------------------------ *)
(* 4. Preprocess test data                                             *)
(* ------------------------------------------------------------------ *)
TestData ==
    /\ pc = "test"
    /\ LET lang == LANGS[idx]
           dest_filepath == TestPath(lang)
           found == RGlob(fs, orig_save_dir, TEST_CORPUS(TestSource(lang), lang))
       IN  IF found = {}
           THEN Crash
           ELSE \E raw_filepath \in found :
                  LET cmd == Cmd("grep", <<raw_filepath>>, dest_filepath)
                  IN  \/ /\ fs' = Write(fs, dest_filepath, SgmExtract(fs[raw_filepath]))
                         /\ log' = Logged(cmd)
                         /\ processed_filepaths' =
                               [processed_filepaths EXCEPT
                                   !.test = Append(@, dest_filepath)]
                         /\ IF idx < Len(LANGS)
                            THEN pc' = pc /\ idx' = idx + 1
                            ELSE pc' = "split_val" /\ idx' = 1
                         /\ UNCHANGED <<conf, tools, ghosts, orig_save_dir,
                                        file_pairs, pairs_left, file_pairs_,
                                        gz_left, src_file_pair, exit_code>>
                      \/ ExecuteFails(cmd)

(* ------------------------------------------------------------------ *)
(* 5. Data splitting                                                   *)
(* ------------------------------------------------------------------ *)
\* awk '{if (NR%1333 == 0) print $0; }' src > dest_val
SplitVal ==
    /\ pc = "split_val"
    /\ LET src_filepath == UnsplitPath(args.save_dir, LANGS[idx])
           dest_val_filepath == SplitPathOf("val", LANGS[idx])
           cmd == Cmd("awk", <<src_filepath>>, dest_val_filepath)
       IN  \/ /\ Exists(src_filepath)
              /\ fs' = Write(fs, dest_val_filepath, AwkSplit(fs[src_filepath], TRUE))
              /\ split_input' = [split_input EXCEPT ![LANGS[idx]] = fs[src_filepath]]
              /\ log' = Logged(cmd)
              /\ processed_filepaths' =
                    [processed_filepaths EXCEPT !.val = Append(@, dest_val_filepath)]
              /\ pc' = "split_train"
              /\ UNCHANGED <<conf, tools, kept, idx, orig_save_dir, file_pairs,
                             pairs_left, file_pairs_, gz_left, src_file_pair,
                             exit_code>>
           \/ ExecuteFails(cmd)

\* awk '{if (NR%1333 != 0) print $0; }' src > dest_train
SplitTrain ==
    /\ pc = "split_train"
    /\ LET src_filepath == UnsplitPath(args.save_dir, LANGS[idx])
           dest_train_filepath == SplitPathOf("train", LANGS[idx])
           cmd == Cmd("awk", <<src_filepath>>, dest_train_filepath)
       IN  \/ /\ Exists(src_filepath)
              /\ fs' = Write(fs, dest_train_filepath, AwkSplit(fs[src_filepath], FALSE))
              /\ log' = Logged(cmd)
              /\ processed_filepaths' =
                    [processed_filepaths EXCEPT !.train = Append(@, dest_train_filepath)]
              /\ pc' = "split_rm"
              /\ UNCHANGED <<conf, tools, ghosts, idx, orig_save_dir, file_pairs,
                             pairs_left, file_pairs_, gz_left, src_file_pair,
                             exit_code>>
           \/ ExecuteFails(cmd)

\* execute(f"rm {src_filepath}")
SplitRm ==
    /\ pc = "split_rm"
    /\ LET src_filepath == UnsplitPath(args.save_dir, LANGS[idx])
           cmd == Cmd("rm", <<src_filepath>>, None)
       IN  \/ /\ Exists(src_filepath)
              /\ fs' = Remove(fs, src_filepath)
              /\ log' = Logged(cmd)
              /\ IF idx < Len(LANGS)
                 THEN pc' = "split_val" /\ idx' = idx + 1
                 ELSE pc' = "merge_rm" /\ idx' = 1
              /\ UNCHANGED <<conf, tools, lists, ghosts, orig_save_dir, exit_code>>
           \/ ExecuteFails(cmd)

(* ------------------------------------------------------------------ *)
(* 6. Merge the train files and learn BPE                              *)
(* ------------------------------------------------------------------ *)
\* remove_if_exists(merged_filepath)
MergeRm ==
    /\ pc = "merge_rm"
    /\ fs' = IF Exists(MergedPath) THEN Remove(fs, MergedPath) ELSE fs
    /\ pc' = "merge"
    /\ UNCHANGED <<conf, tools, lists, ghosts, idx, orig_save_dir, log, exit_code>>

\* (mutant) the validation files merged in as well
MergeInputsWithVal == processed_filepaths.train \o processed_filepaths.val

\* the files the merge loop reads
MergeInputs == processed_filepaths.train

\* execute(f"cat {processed_filepath} >> {merged_filepath}")
Merge ==
    /\ pc = "merge"
    /\ LET processed_filepath == MergeInputs[idx]
           cmd == Cmd("cat", <<processed_filepath>>, MergedPath)
       IN  \/ /\ Exists(processed_filepath)
              /\ fs' = Write(fs, MergedPath,
                             Read(fs, MergedPath) \o fs[processed_filepath])
              /\ log' = Logged(cmd)
              /\ IF idx < Len(MergeInputs)
                 THEN pc' = pc /\ idx' = idx + 1
                 ELSE pc' = "learn" /\ idx' = 1
              /\ UNCHANGED <<conf, tools, lists, ghosts, orig_save_dir, exit_code>>
           \/ ExecuteFails(cmd)

\* execute(f"python learn_bpe.py -s {args.bpe_tokens} < merged > code")
LearnBPE ==
    /\ pc = "learn"
    /\ LET cmd == Cmd("learn_bpe.py", <<MergedPath>>, CodePath)
       IN  \/ /\ Exists(MergedPath)
              /\ fs' = Write(fs, CodePath, LearnBpe(fs[MergedPath], args.bpe_tokens))
              /\ log' = Logged(cmd)
              /\ pc' = "apply"
              /\ idx' = 1
              /\ UNCHANGED <<conf, tools, lists, ghosts, orig_save_dir, exit_code>>
           \/ ExecuteFails(cmd)

(* ------------------------------------------------------------------ *)
(* 7. Apply BPE                                                        *)
(* ------------------------------------------------------------------ *)
\* processed_filepaths.items(), flattened: a dict keeps insertion order
ApplyInputs ==
    processed_filepaths.train \o processed_filepaths.val \o processed_filepaths.test

\* execute(f"python apply_bpe.py -c {code_path} < src > dest")
ApplyBPE ==
    /\ pc = "apply"
    /\ LET src_filepath == ApplyInputs[idx]
           dest_filepath == BpePath(src_filepath)
           cmd == Cmd("apply_bpe.py", <<src_filepath>>, dest_filepath)
           pairs == Append(file_pairs, SplitExt(dest_filepath))
       IN  \/ /\ Exists(src_filepath) /\ Exists(CodePath)
              /\ fs' = Write(fs, dest_filepath, ApplyBpe(fs[CodePath], fs[src_filepath]))
              /\ log' = Logged(cmd)
              /\ file_pairs' = pairs
              /\ IF idx < Len(ApplyInputs)
                 THEN pc' = pc /\ idx' = idx + 1 /\ pairs_left' = pairs_left
                 ELSE /\ pc' = "clean"
                      /\ idx' = 1
                      /\ pairs_left' = {pairs[j] : j \in 1..Len(pairs)}
              /\ UNCHANGED <<conf, tools, ghosts, orig_save_dir,
                             processed_filepaths, file_pairs_, gz_left,
                             src_file_pair, exit_code>>
           \/ ExecuteFails(cmd)

(* ------------------------------------------------------------------ *)
(* 8. Clean data                                                       *)
(* ------------------------------------------------------------------ *)
\* (mutant) no pair is taken for the test pair
IsTestPairNever(p) == FALSE

\* the branch `if "test" in src_file_pair` takes
IsTestPair(p) == HasTest(p)

\* the next src_file_pair of `for src_file_pair in set(file_pairs)`: a set
\* of strings is iterated in an order that differs from run to run
CleanNext ==
    /\ pc = "clean"
    /\ \E p \in pairs_left :
         /\ src_file_pair' = p
         /\ pairs_left' = pairs_left \ {p}
         /\ file_pairs_' = Append(file_pairs_, DestPair(p))
         /\ pc' = IF IsTestPair(p) THEN "clean_cp" ELSE "clean_perl"
    /\ idx' = 1
    /\ UNCHANGED <<conf, tools, ghosts, fs, orig_save_dir, processed_filepaths,
                   file_pairs, gz_left, log, exit_code>>

AfterPair == IF pairs_left = {} THEN "binarize" ELSE "clean"

\* execute(f"cp {src_file_pair}.{lang} {dest_file_pair}.{lang}")
CleanCp ==
    /\ pc = "clean_cp"
    /\ LET src == WithLang(src_file_pair, LANGS[idx])
           dst == WithLang(DestPair(src_file_pair), LANGS[idx])
           cmd == Cmd("cp", <<src>>, dst)
       IN  \/ /\ Exists(src)
              /\ fs' = Write(fs, dst, fs[src])
              /\ log' = Logged(cmd)
              /\ IF idx < Len(LANGS)
                 THEN pc' = pc /\ idx' = idx + 1
                 ELSE pc' = AfterPair /\ idx' = 1
              /\ UNCHANGED <<conf, tools, lists, ghosts, orig_save_dir, exit_code>>
           \/ ExecuteFails(cmd)

\* execute(f"perl {cleaner} -ratio 1.5 {src_file_pair} en fr
\* {dest_file_pair} 1 250"); the script dies on files of unequal length
CleanPerl ==
    /\ pc = "clean_perl"
    /\ LET src_e == WithLang(src_file_pair, SRC_LANG)
           src_f == WithLang(src_file_pair, TGT_LANG)
           dest_file_pair == DestPair(src_file_pair)
           cmd == Cmd("clean-corpus-n.perl", <<src_file_pair>>, dest_file_pair)
       IN  \/ /\ Exists(src_e) /\ Exists(src_f)
              /\ Len(fs[src_e]) = Len(fs[src_f])
              /\ fs' = Write(Write(fs, WithLang(dest_file_pair, SRC_LANG),
                                   CleanCorpus(fs[src_e], fs[src_f], fs[src_e])),
                             WithLang(dest_file_pair, TGT_LANG),
                             CleanCorpus(fs[src_e], fs[src_f], fs[src_f]))
              /\ log' = Logged(cmd)
              /\ pc' = AfterPair
              /\ UNCHANGED <<conf, tools, lists, ghosts, idx, orig_save_dir,
                             exit_code>>
           \/ ExecuteFails(cmd)

(* ------------------------------------------------------------------ *)
(* 9. Binarize data                                                    *)
(* ------------------------------------------------------------------ *)
\* train_pref, val_pref, test_pref = file_pairs_
Prefs == <<file_pairs_[1], file_pairs_[2], file_pairs_[3]>>

Binarize ==
    /\ pc = "binarize"
    /\ IF args.binarize
       THEN LET cmd == Cmd("fairseq-preprocess", Prefs, BinarizedDir)
            IN  \/ /\ log' = Append(Logged(cmd), <<"info", "Done">>)
                   /\ pc' = "done"
                   /\ exit_code' = NormalEnd
                   /\ UNCHANGED <<conf, tools, lists, ghosts, fs, idx,
                                  orig_save_dir>>
                \/ ExecuteFails(cmd)
       ELSE /\ log' = Append(log, <<"info", "Done">>)
            /\ pc' = "done"
            /\ exit_code' = NormalEnd
            /\ UNCHANGED <<conf, tools, lists, ghosts, fs, idx, orig_save_dir>>

Next ==
    \/ Moses \/ SubwordNmt \/ OrigDir \/ Wget \/ Tar \/ Gunzip
    \/ RemoveAsk \/ Tokenize \/ TestData
    \/ SplitVal \/ SplitTrain \/ SplitRm
    \/ MergeRm \/ Merge \/ LearnBPE \/ ApplyBPE
    \/ CleanNext \/ CleanCp \/ CleanPerl \/ Binarize

Spec == Init /\ [][Next]_vars

\* the same program on the corpora of SizedCorpora
SizesSpec == SizesInit /\ [][Next]_vars

(* ------------------------------------------------------------------ *)
(* What the claims speak of                                            *)
(* ------------------------------------------------------------------ *)
\* the commands execute() was called with, in order
Issued == SelectSeq(log, LAMBDA e : e[1] = "exec")
IssuedOf(tool) == SelectSeq(log, LAMBDA e : e[1] = "exec" /\ e[2].tool = tool)

\* the stage of the pipeline a tool belongs to
StageOf(tool) ==
    CASE tool = "git clone" -> 1
      [] tool \in {"wget", "tar", "gunzip"} -> 2
      [] tool = "tokenizer.perl" -> 3
      [] tool = "grep" -> 4
      [] tool \in {"awk", "rm"} -> 5
      [] tool \in {"cat", "learn_bpe.py"} -> 6
      [] tool = "apply_bpe.py" -> 7
      [] tool \in {"cp", "clean-corpus-n.perl"} -> 8
      [] tool = "fairseq-preprocess" -> 9

Ids(f) == [j \in 1..Len(f) |-> f[j][1]]
Aligned(f, g) == Ids(f) = Ids(g)
BpePair(split) ==
    Join(ProcessedDir,
         IF split = "test" THEN <<"bpe", "test", PAIR>>
         ELSE <<"bpe", split, "processed", PAIR>>)
CleanedPair(split) == Join(CleanedDir, <<"bpe", split, PAIR>>)
CleanedFile(split, lang) == fs[WithLang(CleanedPair(split), lang)]
Langs == {SRC_LANG, TGT_LANG}
\* every sentence pair of the file pair e, f is within the filter's bounds
InBounds(e, f) ==
    \A j \in 1..Len(e) : j <= Len(f) => Retained(e[j][2], f[j][2])

(* ------------------------------ C1 --------------------------------- *)
\* C1: a command that fails is the last thing the run does: its output is
\* logged right after it was issued, nothing is logged or issued after
\* that, the process has exited and no step of main is left to take (no
\* retry, no later stage, no "Done").
C1_FailFast ==
    /\ \A i \in 1..Len(log) :
          log[i][1] = "error" =>
             /\ i = Len(log)
             /\ i > 1
             /\ log[i - 1][1] = "exec"
             /\ log[i - 1][2] = log[i][2]
             /\ pc = "exited"
    /\ pc = "exited" =>
          /\ Len(log) > 0
          /\ log[Len(log)][1] = "error"
          /\ ~ENABLED Next

\* a command of the cleaning stage has failed
C1_Witness ==
    /\ pc = "exited"
    /\ log[Len(log)][2].tool = "clean-corpus-n.perl"

(* ------------------------------ C2 --------------------------------- *)
\* C2: a run that a failing command ended has a non-zero exit status, one
\* that differs from the status of a run that completed.
C2_NonZeroExit == pc = "exited" => (exit_code # 0 /\ exit_code # NormalEnd)

(* ------------------------------ C3 --------------------------------- *)
\* C3: once both awk commands have run on an unsplit file of N lines, line
\* i of it is line i/1333 of the validation file when 1333 divides i and
\* line i - floor(i/1333) of the training file otherwise, and the two
\* files have floor(N/1333) and N - floor(N/1333) lines: each line is in
\* exactly one of them, in the order of the input.
C3_SplitRule ==
    pc = "split_rm" =>
       LET f == fs[UnsplitPath(args.save_dir, LANGS[idx])]
           v == fs[SplitPathOf("val", LANGS[idx])]
           t == fs[SplitPathOf("train", LANGS[idx])]
           N == Len(f)
       IN  /\ Len(v) = N \div SplitMod
           /\ Len(t) = N - (N \div SplitMod)
           /\ \A i \in 1..N :
                 IF i % SplitMod = 0
                 THEN v[i \div SplitMod] = f[i]
                 ELSE t[i - (i \div SplitMod)] = f[i]

\* a file of two full strides has been split
C3_Witness ==
    /\ pc = "split_rm"
    /\ Len(fs[UnsplitPath(args.save_dir, LANGS[idx])]) = 2 * SplitMod
    /\ Len(fs[SplitPathOf("val", LANGS[idx])]) = 2

(* ------------------------------ C4 --------------------------------- *)
\* C4: when the two unsplit files had the same number of lines and the
\* same sentence on every line, then after both are split the two
\* training files have the same number of lines and the same sentence
\* (the same input line) on every line, and so have the two validation
\* files.
C4_Alignment ==
    (pc = "merge_rm" /\ Aligned(split_input[SRC_LANG], split_input[TGT_LANG])) =>
       \A split \in {"train", "val"} :
          Aligned(fs[SplitPathOf(split, SRC_LANG)], fs[SplitPathOf(split, TGT_LANG)])

\* aligned files of more than two strides have been split
C4_Witness ==
    /\ pc = "merge_rm"
    /\ Aligned(split_input[SRC_LANG], split_input[TGT_LANG])
    /\ Len(fs[SplitPathOf("val", SRC_LANG)]) = 2
    /\ Len(fs[SplitPathOf("train", TGT_LANG)]) > SplitMod

(* ------------------------------ C5 --------------------------------- *)
\* C5: in a completed run the cleaned train and the cleaned validation
\* pair hold only sentence pairs with 1 to 250 tokens on both sides and a
\* ratio of at most 1.5, whatever the save directory is called.
C5_FilterBounds ==
    pc = "done" =>
       \A split \in {"train", "val"} :
          InBounds(CleanedFile(split, SRC_LANG), CleanedFile(split, TGT_LANG))

(* ------------------------------ C6 --------------------------------- *)
\* C6: the cleaning filter is never run on the test pair, and in a
\* completed run each cleaned test file is the BPE-applied test file of
\* its language, line for line.
C6_TestVerbatim ==
    /\ \A i \in 1..Len(log) :
          (log[i][1] = "exec" /\ log[i][2].tool = "clean-corpus-n.perl")
             => log[i][2].src[1] # BpePair("test")
    /\ pc = "done" =>
          \A lang \in Langs :
             CleanedFile("test", lang) = fs[WithLang(BpePair("test"), lang)]

\* a completed run whose test pair holds pairs the filter would drop
C6_Witness ==
    /\ pc = "done"
    /\ Len(CleanedFile("test", SRC_LANG)) = 3
    /\ ~InBounds(fs[WithLang(BpePair("test"), SRC_LANG)],
                 fs[WithLang(BpePair("test"), TGT_LANG)])

(* ------------------------------ C7 --------------------------------- *)
\* C7: fairseq-preprocess is run at most once, never without --binarize,
\* once in a completed run with it, and always on the cleaned train,
\* validation and test prefixes in that order.
C7_HandOff ==
    LET calls == IssuedOf("fairseq-preprocess")
    IN  /\ Len(calls) <= 1
        /\ ~args.binarize => Len(calls) = 0
        /\ (args.binarize /\ pc = "done") => Len(calls) = 1
        /\ \A i \in 1..Len(calls) :
              calls[i][2].src = <<CleanedPair("train"), CleanedPair("val"),
                                  CleanedPair("test")>>

(* ------------------------------ C8 --------------------------------- *)
\* C8: when the data is fetched, then after the last archive every archive
\* and every file unpacked from it lies under `save_dir`/orig, and the
\* later stages find the files they look for there.
Unzipped(name) ==
    IF name[Len(name)] = "gz" THEN SubSeq(name, 1, Len(name) - 1) ELSE name
C8_RawUnderOrig ==
    args.orig_dir = None =>
       /\ pc # "crashed"
       /\ (pc = "normalize" /\ idx = 1) =>
             \A u \in 1..Len(URLS) :
                /\ Exists(Join(Join(args.save_dir, Dir("orig")), URLS[u]))
                /\ \A m \in Members(URLS[u], corpus) :
                      RGlob(fs, Join(args.save_dir, Dir("orig")),
                            Unzipped(m[1][Len(m[1])])) # {}

(* ------------------------------ C9 --------------------------------- *)
\* a completed run on the toy corpus (no stale unsplit file kept)
ToyRun == pc = "done" /\ kept = {} /\ corpus.n = Both(ToySize)
Strides(n) == [j \in 1..(n \div SplitMod) |-> j * SplitMod]
Violating == {corpus.long, corpus.skew}

\* C9 as stated: the cleaned train file has 2000 - 4 = 1996 pairs and the
\* validation file exactly the pairs at the multiples of 1333.
C9_AsStated ==
    ToyRun =>
       /\ \A lang \in Langs : Len(CleanedFile("train", lang)) = ToySize - 4
       /\ \A lang \in Langs : Ids(CleanedFile("val", lang)) = Strides(ToySize)

\* C9 amended: the split leaves 2000 - 1 = 1999 training pairs and the pair
\* at line 1333 for validation; the filter drops from each the violating
\* pairs it holds (1997 training pairs remain when both violating pairs
\* are training pairs), and drops nothing when the path of the save
\* directory holds "test".
C9_Amended ==
    ToyRun =>
       LET nval == ToySize \div SplitMod
           ntrain == ToySize - nval
           badTrain == {b \in Violating : b % SplitMod # 0}
           filtered == ~HasTest(args.save_dir)
       IN  \A lang \in Langs :
              /\ Len(fs[SplitPathOf("train", lang)]) = ntrain
              /\ Ids(fs[SplitPathOf("val", lang)]) = Strides(ToySize)
              /\ Len(CleanedFile("train", lang)) =
                    IF filtered THEN ntrain - Cardinality(badTrain) ELSE ntrain
              /\ Ids(CleanedFile("val", lang)) =
                    IF filtered
                    THEN SelectSeq(Strides(ToySize), LAMBDA k : k \notin Violating)
                    ELSE Strides(ToySize)

\* a completed, filtered run with both violating pairs in the training part
C9_Witness ==
    /\ ToyRun
    /\ ~HasTest(args.save_dir)
    /\ \A b \in Violating : b % SplitMod # 0
    /\ Len(CleanedFile("train", SRC_LANG)) = ToySize - 3

(* ------------------------------ C10 -------------------------------- *)
\* C10: the commands are issued in the order of the stages and each but
\* the last one issued has succeeded; learn_bpe.py is issued at most once
\* (once in a completed run), after the four awk and the two rm commands
\* of the split, on the concatenation of the English and the French
\* training file and nothing else; apply_bpe.py is only issued after it.
C10_StageOrder ==
    /\ \A i \in 1..(Len(Issued) - 1) :
          StageOf(Issued[i][2].tool) <= StageOf(Issued[i + 1][2].tool)
    /\ \A i \in 1..(Len(log) - 1) : log[i][1] # "error"
    /\ Len(IssuedOf("learn_bpe.py")) <= 1
    /\ pc = "done" => Len(IssuedOf("learn_bpe.py")) = 1
    /\ Len(IssuedOf("learn_bpe.py")) = 1 =>
          /\ Len(IssuedOf("awk")) = 4
          /\ Len(IssuedOf("rm")) = 2
          /\ Len(IssuedOf("cat")) = 2
    /\ Len(IssuedOf("apply_bpe.py")) > 0 => Len(IssuedOf("learn_bpe.py")) = 1
    /\ (pc = "apply" /\ idx = 1) =>
          fs[MergedPath] = fs[SplitPathOf("train", SRC_LANG)]
                               \o fs[SplitPathOf("train", TGT_LANG)]

\* BPE has just been learned from a merged file with lines in it
C10_Witness ==
    /\ pc = "apply"
    /\ idx = 1
    /\ Len(fs[MergedPath]) > ToySize

====
